---- MODULE Spec2Model ----
(***************************************************************************)
(* meTasking/sync: reconciliation of two collections of work-interval      *)
(* records.  The model follows main() (main.py), sync() (sync.py), the     *)
(* in-memory collection of BaseProvider (provider/base.py) and the apply   *)
(* loops of the Jira, meTasking and Toggl providers.                       *)
(***************************************************************************)
EXTENDS Integers, Sequences, FiniteSets, TLC

\* ------------------------------------------------------------------ bounds

\* Records held by the two backing stores together (Spec).
MaxRecords == 4
\* Records held by the two backing stores together (MainSpec).
MaxMainRecords == 2
\* Changes ever queued on the provider (ProviderSpec).
MaxQueued == 2
\* Requests sent before which apply() may still be called (ProviderSpec).
MaxSent == 3
\* Ids a collection may hold before index_data_point is no longer called (ProviderSpec).
MaxHeld == 3

\* ------------------------------------------------------------- value types

_SOURCE == 0
_DESTINATION == 1
Sides == {_SOURCE, _DESTINATION}

\* Optional values (T | None): None is the empty tuple, a value v is <<v>>.
None == <<>>
Some(v) == <<v>>

\* A datetime, by the fields round_datetime replaces.
DT(m, s, u) == [minute |-> m, second |-> s, microsecond |-> u]

\* datetime.__lt__
DtLess(a, b) ==
    \/ a.minute < b.minute
    \/ a.minute = b.minute /\ a.second < b.second
    \/ a.minute = b.minute /\ a.second = b.second /\ a.microsecond < b.microsecond

Accuracy == {"minute", "second", "microsecond"}

\* DataPoint, with its validator end_must_be_after_start.
DataPoint(id, name, description, start, end) ==
    [id |-> id, name |-> name, description |-> description,
     start |-> start, end |-> end]

end_must_be_after_start(dp) == ~DtLess(dp.end, dp.start)

\* DataPointAction and its three kinds.
DataPointAction(prev, next) == [prev |-> prev, next |-> next]

is_create(a) == a.prev = None /\ a.next # None
is_update(a) == a.prev # None /\ a.next # None
is_delete(a) == a.prev # None /\ a.next = None

\* ------------------------------------------------------------- pure helpers

EmptyMap == [k \in {} |-> {}]

Put(f, k, v) == [x \in (DOMAIN f) \cup {k} |-> IF x = k THEN v ELSE f[x]]

Del(f, k) == [x \in (DOMAIN f) \ {k} |-> f[x]]

\* dict.get(key, set())
GetSet(f, k) == IF k \in DOMAIN f THEN f[k] ELSE {}

Range(s) == {s[i] : i \in 1..Len(s)}

RECURSIVE Perms(_)
Perms(S) ==
    IF S = {} THEN {<<>>}
    ELSE UNION {{<<x>> \o p : p \in Perms(S \ {x})} : x \in S}

\* ------------------------------------------------------------ round_datetime

\* round_datetime whose minute accuracy keeps the microseconds.
round_datetime_minute_keeps_microsecond(acc, dt) ==
    CASE acc = "minute" -> [dt EXCEPT !.second = 0]
      [] acc = "second" -> [dt EXCEPT !.microsecond = 0]
      [] acc = "microsecond" -> dt

\* round_datetime(accuracy, dt)
round_datetime(acc, dt) ==
    CASE acc = "minute" -> [dt EXCEPT !.second = 0, !.microsecond = 0]
      [] acc = "second" -> [dt EXCEPT !.microsecond = 0]
      [] acc = "microsecond" -> dt

\* ------------------------------------------------- BaseProvider (base.py)

\* Provider.__init__ and BaseProvider.__init__: an empty collection.
BaseProvider(kind, since, until, dry_run, allow_delete) ==
    [kind |-> kind, since |-> since, until |-> until,
     dry_run |-> dry_run, allow_delete |-> allow_delete,
     data_sequence |-> <<>>, data_indexes |-> EmptyMap, data_map |-> EmptyMap,
     remaining_changes |-> <<>>, all_changes |-> <<>>,
     failed |-> <<>>, unprocessed |-> <<>>]

\* The outcome of a call: the object after it and the error raised ("" if none).
Outcome(p, raised) == [p |-> p, raised |-> raised]

\* index_data_point without the duplicate-id test.
index_data_point_unchecked(p, data_point) ==
    LET seq == Append(p.data_sequence, data_point.id)
    IN  Outcome([p EXCEPT !.data_sequence = seq,
                          !.data_indexes = Put(@, data_point.id, Len(seq) - 1),
                          !.data_map = Put(@, data_point.id, data_point)],
                "")

\* BaseProvider.index_data_point
BaseProvider_index_data_point(p, data_point) ==
    IF p.since # None /\ DtLess(data_point.end, p.since[1]) THEN Outcome(p, "")
    ELSE IF p.until # None /\ DtLess(p.until[1], data_point.start) THEN Outcome(p, "")
    ELSE IF data_point.id \in DOMAIN p.data_map
         THEN Outcome(p, "Duplicate data point id")
    ELSE LET seq == Append(p.data_sequence, data_point.id)
         IN  Outcome([p EXCEPT !.data_sequence = seq,
                               !.data_indexes = Put(@, data_point.id, Len(seq) - 1),
                               !.data_map = Put(@, data_point.id, data_point)],
                     "")

\* BaseProvider.open: index every record initialize_data_points yields,
\* stopping at the first error.
RECURSIVE open_from(_, _, _)
open_from(p, points, i) ==
    IF i > Len(points) THEN Outcome(p, "")
    ELSE LET r == BaseProvider_index_data_point(p, points[i])
         IN  IF r.raised # "" THEN r ELSE open_from(r.p, points, i + 1)

open(p, points) == open_from(p, points, 1)

\* BaseProvider.dump
dump(p) == [i \in 1..Len(p.data_sequence) |-> p.data_map[p.data_sequence[i]]]

\* add_change that leaves the collection alone on an update.
add_change_update_ignored(p, change) ==
    IF is_create(change) /\ change.next[1].id \in DOMAIN p.data_map
    THEN Outcome(p, "Duplicate data point id")
    ELSE IF is_create(change)
    THEN LET seq == Append(p.data_sequence, change.next[1].id)
         IN  Outcome([p EXCEPT !.data_sequence = seq,
                               !.data_indexes = Put(@, change.next[1].id, Len(seq) - 1),
                               !.data_map = Put(@, change.next[1].id, change.next[1])],
                     "")
    ELSE Outcome(p, "")

\* add_change with the duplicate test of a create inverted.
add_change_inverted(p, change) ==
    IF is_create(change) /\ change.next[1].id \notin DOMAIN p.data_map
    THEN Outcome(p, "Duplicate data point id")
    ELSE IF is_create(change) \/ is_update(change)
    THEN Outcome([p EXCEPT !.data_map = Put(@, change.next[1].id, change.next[1])], "")
    ELSE Outcome(p, "")

\* One iteration of the loop of BaseProvider.add_changes.
add_change(p, change) ==
    IF is_create(change) THEN
        IF change.next[1].id \in DOMAIN p.data_map
        THEN Outcome(p, "Duplicate data point id")
        ELSE LET seq == Append(p.data_sequence, change.next[1].id)
             IN  Outcome([p EXCEPT !.data_sequence = seq,
                                   !.data_indexes = Put(@, change.next[1].id, Len(seq) - 1),
                                   !.data_map = Put(@, change.next[1].id, change.next[1])],
                         "")
    ELSE IF is_delete(change) THEN
        IF change.prev[1].id \in DOMAIN p.data_map /\ change.prev[1].id \notin DOMAIN p.data_indexes
        THEN \* self.data_indexes[data_point.prev.id] raises KeyError
             Outcome(p, "KeyError")
        ELSE IF change.prev[1].id \in DOMAIN p.data_map
        THEN LET id == change.prev[1].id
                 data_point_index == p.data_indexes[id]
                 \* data_sequence.pop(data_point_index), 0-based
                 seq == [i \in 1..(Len(p.data_sequence) - 1) |->
                            IF i <= data_point_index
                            THEN p.data_sequence[i] ELSE p.data_sequence[i + 1]]
                 shifted == {seq[i] : i \in (data_point_index + 1)..Len(seq)}
                 indexes == [x \in DOMAIN p.data_indexes |->
                                IF x \in shifted THEN p.data_indexes[x] - 1
                                ELSE p.data_indexes[x]]
             IN  Outcome([p EXCEPT !.data_sequence = seq,
                                   !.data_indexes = Del(indexes, id),
                                   !.data_map = Del(@, id)],
                         "")
        ELSE Outcome(p, "")
    ELSE IF is_update(change) THEN
        Outcome([p EXCEPT !.data_map = Put(@, change.next[1].id, change.next[1])], "")
    ELSE Outcome(p, "Unknown action")

RECURSIVE add_changes_from(_, _, _)
add_changes_from(p, data, i) ==
    IF i > Len(data) THEN Outcome(p, "")
    ELSE LET r == add_change(p, data[i])
         IN  IF r.raised # "" THEN r ELSE add_changes_from(r.p, data, i + 1)

\* BaseProvider.add_changes: queue the changes, then update the collection.
add_changes(p, data) ==
    add_changes_from([p EXCEPT !.remaining_changes = @ \o data,
                               !.all_changes = @ \o data],
                     data, 1)

\* ------------------------------------------------------------ sync (sync.py)

\* The dictionaries and lists sync() builds while indexing.
SyncIndex(idm, tsm, tem, ids) ==
    [id_map |-> idm, time_start_map |-> tsm, time_end_map |-> tem, ids_list |-> ids]

EmptyIndex == SyncIndex(EmptyMap, EmptyMap, EmptyMap, [t \in Sides |-> <<>>])

\* The test of the loop of sync.index_data_point: a record of the same side
\* under the same rounded start whose end is the new record's end.
colliding(acc, s, data_type, data_point) ==
    {k \in GetSet(s.time_start_map, round_datetime(acc, data_point.start)) :
        /\ k[1] = data_type
        /\ s.id_map[k].end = data_point.end}

\* sync.index_data_point appending the id to ids_list twice.
sync_index_data_point_twice(acc, s, data_type, data_point) ==
    LET key == <<data_type, data_point.id>>
        rounded_start == round_datetime(acc, data_point.start)
        rounded_end == round_datetime(acc, data_point.end)
        s1 == [s EXCEPT !.id_map = Put(@, key, data_point)]
    IN  IF key \in DOMAIN s.id_map THEN Outcome(s, "Duplicate data point id")
        ELSE IF {k \in GetSet(s1.time_start_map, rounded_start) :
                    k[1] = data_type /\ s1.id_map[k].end = data_point.end} # {}
             THEN Outcome(s1, "Duplicate data point")
        ELSE Outcome(
                [s1 EXCEPT
                    !.time_start_map =
                        Put(@, rounded_start, GetSet(@, rounded_start) \cup {key}),
                    !.time_end_map =
                        Put(@, rounded_end, GetSet(@, rounded_end) \cup {key}),
                    !.ids_list[data_type] = Append(Append(@, data_point.id), data_point.id)],
                "")

\* sync.index_data_point
sync_index_data_point(acc, s, data_type, data_point) ==
    LET key == <<data_type, data_point.id>>
        rounded_start == round_datetime(acc, data_point.start)
        rounded_end == round_datetime(acc, data_point.end)
        s1 == [s EXCEPT !.id_map = Put(@, key, data_point)]
    IN  IF key \in DOMAIN s.id_map THEN Outcome(s, "Duplicate data point id")
        ELSE IF colliding(acc, s1, data_type, data_point) # {}
             THEN Outcome(s1, "Duplicate data point")
        ELSE Outcome(
                [s1 EXCEPT
                    !.time_start_map =
                        Put(@, rounded_start, GetSet(@, rounded_start) \cup {key}),
                    !.time_end_map =
                        Put(@, rounded_end, GetSet(@, rounded_end) \cup {key}),
                    !.ids_list[data_type] = Append(@, data_point.id)],
                "")

\* for data_point in <provider>.dump(): index_data_point(data_type, data_point)
RECURSIVE index_dump_from(_, _, _, _, _)
index_dump_from(acc, s, data_type, points, i) ==
    IF i > Len(points) THEN Outcome(s, "")
    ELSE LET r == sync_index_data_point(acc, s, data_type, points[i])
         IN  IF r.raised # "" THEN r
             ELSE index_dump_from(acc, r.p, data_type, points, i + 1)

index_dump(acc, s, data_type, points) == index_dump_from(acc, s, data_type, points, 1)

\* candidates without the comparison of the rounded ends.
candidates_start_only(acc, s, data_type, data_point) ==
    {k \in GetSet(s.time_start_map, round_datetime(acc, data_point.start)) :
        k[1] = data_type}

\* The records of side data_type that the two matching loops of sync accept for
\* data_point: under its rounded start, with its rounded end.
candidates(acc, s, data_type, data_point) ==
    {k \in GetSet(s.time_start_map, round_datetime(acc, data_point.start)) :
        /\ k[1] = data_type
        /\ round_datetime(acc, s.id_map[k].end) = round_datetime(acc, data_point.end)}

\* missing with the candidates taken from the source side.
missing_same_side(acc, s) ==
    {id \in Range(s.ids_list[_SOURCE]) :
        {k \in GetSet(s.time_start_map,
                      round_datetime(acc, s.id_map[<<_SOURCE, id>>].start)) :
            /\ k[1] = _SOURCE
            /\ round_datetime(acc, s.id_map[k].end)
                = round_datetime(acc, s.id_map[<<_SOURCE, id>>].end)} = {}}

\* missing that takes every source id.
missing_all(acc, s) == Range(s.ids_list[_SOURCE])

\* The first loop of sync: the source ids whose candidate loop ends without break.
missing(acc, s) ==
    {id \in Range(s.ids_list[_SOURCE]) :
        candidates(acc, s, _DESTINATION, s.id_map[<<_SOURCE, id>>]) = {}}

\* Whether the destination record differs from the matched source record.
differs(data_point, source_data_point) ==
    \/ data_point.name # source_data_point.name
    \/ data_point.description # source_data_point.description

\* The copy of the destination record that takes the source's name and description.
modified(data_point, source_data_point) ==
    [data_point EXCEPT !.name = source_data_point.name,
                       !.description = source_data_point.description]

new_id(n) == "new-" \o ToString(n)

\* next_id probing the destination side only.
RECURSIVE next_id_destination_only(_, _)
next_id_destination_only(n, idm) ==
    IF <<_DESTINATION, new_id(n)>> \in DOMAIN idm
    THEN next_id_destination_only(n + 1, idm)
    ELSE [id |-> new_id(n), next_generated_id |-> n + 1]

\* sync.next_id: the id returned and the counter after the call.
RECURSIVE next_id(_, _)
next_id(n, idm) ==
    IF <<_SOURCE, new_id(n)>> \in DOMAIN idm \/ <<_DESTINATION, new_id(n)>> \in DOMAIN idm
    THEN next_id(n + 1, idm)
    ELSE [id |-> new_id(n), next_generated_id |-> n + 1]

\* ------------------------------------------------------------------ inputs

\* Names a record may carry; IssueKeys are the ones ISSUE_KEY_REGEX matches.
Names == {"A-1", "b"}
IssueKeys == {"A-1"}

\* (name, description) pairs: differing in the name, in the description, in both.
Labels ==
    {[name |-> "A-1", description |-> None],
     [name |-> "b", description |-> None],
     [name |-> "A-1", description |-> Some("x")]}

\* (start, end) pairs.  At minute accuracy the two round to the same pair; at
\* second accuracy to the same start and to different ends; at microsecond
\* accuracy to different starts.
Intervals ==
    {<<DT(0, 0, 0), DT(1, 0, 0)>>,
     <<DT(0, 0, 1), DT(1, 1, 0)>>}

\* What a store may hold, before the store gives it an id.
Contents(labels, intervals) ==
    {c \in {DataPoint("", l.name, l.description, iv[1], iv[2]) :
                l \in labels, iv \in intervals} : end_must_be_after_start(c)}

\* The id the store of a side and kind gives its i-th record.  Jira ids are
\* worklog URLs; the other stores' ids include ids of the form sync generates.
StoreId(side, kind, i) ==
    IF kind = "jira" THEN "http-" \o ToString(i)
    ELSE IF i = 1 THEN (IF side = _SOURCE THEN "new-1" ELSE "new-0")
    ELSE ToString(i)

\* str.startswith("http") on the ids above.
startswith_http(id) == id \in {"http-" \o ToString(i) : i \in 1..(MaxRecords + MaxMainRecords)}

\* The records initialize_data_points yields for a store holding contents cs.
Stored(side, kind, cs) ==
    [i \in 1..Len(cs) |-> [cs[i] EXCEPT !.id = StoreId(side, kind, i)]]

\* ------------------------------------------------------------------- state

VARIABLES
    accuracy,                     \* args.accuracy
    store,                        \* per side: the records the backing store holds
    requests,                     \* per side: the mutations sent to the backing store
    provider,                     \* per side: the provider object
    id_map, time_start_map, time_end_map, ids_list,
    next_generated_id,
    missing_in_destination,
    modified_in_destination_ids, modified_in_destination,
    additional_in_destination,
    modifications,
    pc,                           \* where main() and sync() stand
    error,                        \* the exception open() or sync() raised ("" if none)
    apply_error,                  \* the exception apply() raised ("" if none)
    run,                          \* which call of sync this is
    cursor,                       \* position of the loop over ids_list[_DESTINATION]
    pending,                      \* ids the loop over missing_in_destination has left
    apply_pos,                    \* position of the loop of apply_changes
    tgt,                          \* main's tgt is not None
    report_out                    \* what main prints: tgt.report()

inputVars == <<accuracy, store>>
indexVars == <<id_map, time_start_map, time_end_map, ids_list>>
matchVars == <<missing_in_destination, modified_in_destination_ids,
               modified_in_destination, additional_in_destination>>
syncVars == <<indexVars, next_generated_id, matchVars, modifications, cursor, pending>>
mainVars == <<apply_pos, tgt, report_out, requests, apply_error>>
vars == <<inputVars, provider, syncVars, mainVars, pc, error, run>>

Index == SyncIndex(id_map, time_start_map, time_end_map, ids_list)

SetIndex(s) ==
    /\ id_map' = s.id_map
    /\ time_start_map' = s.time_start_map
    /\ time_end_map' = s.time_end_map
    /\ ids_list' = s.ids_list

\* The locals of sync() at its entry.
SyncEntry ==
    /\ SetIndex(EmptyIndex)
    /\ next_generated_id' = 0
    /\ missing_in_destination' = {}
    /\ modified_in_destination_ids' = {}
    /\ modified_in_destination' = <<>>
    /\ additional_in_destination' = {}
    /\ modifications' = <<>>
    /\ cursor' = 1
    /\ pending' = {}

\* The state main() starts in, for the given inputs and command-line flags.
InitWith(accs, stores, kinds, flags) ==
    /\ accuracy \in accs
    /\ \E k \in kinds, f \in flags :
        /\ provider = [t \in Sides |-> BaseProvider(k[t + 1], None, None, f.dry_run, f.delete)]
        /\ \E st \in stores :
            store = [t \in Sides |-> Stored(t, k[t + 1], st[t + 1])]
    /\ requests = [t \in Sides |-> <<>>]
    /\ id_map = EmptyMap /\ time_start_map = EmptyMap /\ time_end_map = EmptyMap
    /\ ids_list = [t \in Sides |-> <<>>]
    /\ next_generated_id = 0
    /\ missing_in_destination = {}
    /\ modified_in_destination_ids = {}
    /\ modified_in_destination = <<>>
    /\ additional_in_destination = {}
    /\ modifications = <<>>
    /\ pc = "enter_source"
    /\ error = ""
    /\ apply_error = ""
    /\ run = 1
    /\ cursor = 1
    /\ pending = {}
    /\ apply_pos = 1
    /\ tgt = FALSE
    /\ report_out = None

\* Pairs (source contents, destination contents) of at most n records in all.
StorePairs(cs, n) ==
    UNION {[1..ab[1] -> cs] \X [1..ab[2] -> cs] :
              ab \in {x \in (0..n) \X (0..n) : x[1] + x[2] <= n}}

Init ==
    InitWith(Accuracy,
             StorePairs(Contents(Labels, Intervals), MaxRecords),
             {<<"toggl", "metasking">>},
             {[dry_run |-> FALSE, delete |-> TRUE]})

\* ------------------------------------------------------------- main: enter

\* with select_provider(args.source, args) as source_provider
OpenSource ==
    /\ pc = "enter_source"
    /\ LET r == open(provider[_SOURCE], store[_SOURCE])
       IN  /\ provider' = [provider EXCEPT ![_SOURCE] = r.p]
           /\ error' = r.raised
           /\ pc' = IF r.raised # "" THEN "aborted" ELSE "enter_destination"
    /\ UNCHANGED <<inputVars, syncVars, mainVars, run>>

\* with select_provider(args.target, args) as target_provider; tgt = target_provider
OpenDestination ==
    /\ pc = "enter_destination"
    /\ LET r == open(provider[_DESTINATION], store[_DESTINATION])
       IN  /\ provider' = [provider EXCEPT ![_DESTINATION] = r.p]
           /\ error' = r.raised
           /\ tgt' = (r.raised = "")
           /\ pc' = IF r.raised # "" THEN "exit_source" ELSE "sync_index_source"
    /\ UNCHANGED <<inputVars, syncVars, apply_pos, report_out, requests, apply_error, run>>

\* ------------------------------------------------------------------- sync

\* for data_point in source.dump(): index_data_point(_SOURCE, data_point)
SyncIndexSource ==
    /\ pc = "sync_index_source"
    /\ LET r == index_dump(accuracy, Index, _SOURCE, dump(provider[_SOURCE]))
       IN  /\ SetIndex(r.p)
           /\ error' = r.raised
           /\ pc' = IF r.raised # "" THEN "sync_raised" ELSE "sync_index_destination"
    /\ UNCHANGED <<inputVars, provider, next_generated_id, matchVars, modifications,
                   cursor, pending, mainVars, run>>

\* for data_point in destination.dump(): index_data_point(_DESTINATION, data_point)
SyncIndexDestination ==
    /\ pc = "sync_index_destination"
    /\ LET r == index_dump(accuracy, Index, _DESTINATION, dump(provider[_DESTINATION]))
       IN  /\ SetIndex(r.p)
           /\ error' = r.raised
           /\ pc' = IF r.raised # "" THEN "sync_raised" ELSE "sync_missing"
    /\ UNCHANGED <<inputVars, provider, next_generated_id, matchVars, modifications,
                   cursor, pending, mainVars, run>>

\* The loop over ids_list[_SOURCE] that fills missing_in_destination.
SyncMissing ==
    /\ pc = "sync_missing"
    /\ missing_in_destination' = missing(accuracy, Index)
    /\ cursor' = 1
    /\ pc' = IF Len(ids_list[_DESTINATION]) = 0 THEN "sync_updates" ELSE "sync_destination"
    /\ UNCHANGED <<inputVars, provider, indexVars, next_generated_id,
                   modified_in_destination_ids, modified_in_destination,
                   additional_in_destination, modifications, pending, mainVars,
                   error, run>>

\* One iteration of the loop over ids_list[_DESTINATION]: the candidate loop
\* stops at the first source record it accepts, whichever the set yields first.
SyncDestination ==
    /\ pc = "sync_destination"
    /\ cursor <= Len(ids_list[_DESTINATION])
    /\ LET id == ids_list[_DESTINATION][cursor]
           data_point == id_map[<<_DESTINATION, id>>]
           found == candidates(accuracy, Index, _SOURCE, data_point)
           after == IF cursor = Len(ids_list[_DESTINATION])
                    THEN "sync_updates" ELSE "sync_destination"
       IN  IF found = {}
           THEN /\ additional_in_destination' = additional_in_destination \cup {id}
                /\ pc' = after
                /\ UNCHANGED <<modified_in_destination_ids, modified_in_destination, error>>
           ELSE \E k \in found :
                LET source_data_point == id_map[k]
                IN  IF ~differs(data_point, source_data_point)
                    THEN /\ pc' = after
                         /\ UNCHANGED <<matchVars, error>>
                    ELSE IF id \in modified_in_destination_ids
                    THEN /\ pc' = "sync_raised"
                         /\ error' = "Same id matched multiple times"
                         /\ UNCHANGED matchVars
                    ELSE /\ modified_in_destination_ids' =
                                modified_in_destination_ids \cup {id}
                         /\ modified_in_destination' =
                                Append(modified_in_destination,
                                       <<data_point, modified(data_point, source_data_point)>>)
                         /\ pc' = after
                         /\ UNCHANGED <<missing_in_destination,
                                        additional_in_destination, error>>
    /\ cursor' = cursor + 1
    /\ UNCHANGED <<inputVars, provider, indexVars, next_generated_id,
                   missing_in_destination, modifications, pending, mainVars, run>>

\* The loop over modified_in_destination: one update each.
SyncUpdates ==
    /\ pc = "sync_updates"
    /\ modifications' =
            [i \in 1..Len(modified_in_destination) |->
                DataPointAction(Some(modified_in_destination[i][1]),
                                Some(modified_in_destination[i][2]))]
    /\ id_map' =
            [k \in DOMAIN id_map |->
                IF \E i \in 1..Len(modified_in_destination) :
                        k = <<_DESTINATION, modified_in_destination[i][2].id>>
                THEN (CHOOSE m \in Range(modified_in_destination) :
                            k = <<_DESTINATION, m[2].id>>)[2]
                ELSE id_map[k]]
    /\ pending' = missing_in_destination
    /\ pc' = IF missing_in_destination = {} THEN "sync_delete" ELSE "sync_create"
    /\ UNCHANGED <<inputVars, provider, time_start_map, time_end_map, ids_list,
                   next_generated_id, matchVars, cursor, mainVars, error, run>>

\* One iteration of the loop over missing_in_destination, in the order the set
\* yields its members: copy the source record under a generated id, emit the
\* create and index the copy on the destination side.
SyncCreate ==
    /\ pc = "sync_create"
    /\ \E id \in pending :
        LET original == id_map[<<_SOURCE, id>>]
            generated == next_id(next_generated_id, id_map)
            new_data_point == [original EXCEPT !.id = generated.id]
            r == sync_index_data_point(accuracy, Index, _DESTINATION, new_data_point)
        IN  /\ next_generated_id' = generated.next_generated_id
            /\ modifications' =
                    Append(modifications, DataPointAction(None, Some(new_data_point)))
            /\ SetIndex(r.p)
            /\ error' = r.raised
            /\ pending' = pending \ {id}
            /\ pc' = IF r.raised # "" THEN "sync_raised"
                     ELSE IF pending = {id} THEN "sync_delete" ELSE "sync_create"
    /\ UNCHANGED <<inputVars, provider, matchVars, cursor, mainVars, run>>

\* The change list handed to the source provider instead.
changes_receiver_source == _SOURCE

\* The provider sync hands the change list to: destination.add_changes(...).
changes_receiver == _DESTINATION

\* The loop over additional_in_destination, in the order the set yields its
\* members, and destination.add_changes(modifications), which ends sync.
SyncDelete ==
    /\ pc = "sync_delete"
    /\ \E order \in Perms(additional_in_destination) :
        LET deletes == [i \in 1..Len(order) |->
                            DataPointAction(Some(id_map[<<_DESTINATION, order[i]>>]), None)]
            r == add_changes(provider[changes_receiver], modifications \o deletes)
        IN  /\ modifications' = modifications \o deletes
            /\ provider' = [provider EXCEPT ![changes_receiver] = r.p]
            /\ error' = r.raised
            /\ pc' = IF r.raised # "" THEN "sync_raised" ELSE "synced"
    /\ UNCHANGED <<inputVars, indexVars, next_generated_id, matchVars, cursor, pending,
                   mainVars, run>>

\* sync(accuracy, source, destination) called again on the same two providers.
Resync ==
    /\ pc = "synced"
    /\ run = 1
    /\ SyncEntry
    /\ run' = 2
    /\ pc' = "sync_index_source"
    /\ UNCHANGED <<inputVars, provider, mainVars, error>>

Sync ==
    \/ SyncIndexSource
    \/ SyncIndexDestination
    \/ SyncMissing
    \/ SyncDestination
    \/ SyncUpdates
    \/ SyncCreate
    \/ SyncDelete

\* ------------------------------------------------ apply_changes (providers)

\* The answers of a backing store to the successive requests of one change.
Statuses == {200, 404, 500}
Responses == [1..3 -> Statuses]

\* requests.<method>(...): the method, the record it is about and the answer.
Request(method, data, status) == [method |-> method, data |-> data, status |-> status]

\* response.raise_for_status()
raise_for_status(status) == status >= 400

\* The effect of handling one change: the provider after it, the requests sent and
\* whether an exception left the handler.
Applied(p, sent, raised) == [p |-> p, sent |-> sent, raised |-> raised]

\* JiraProvider._apply_change, the branch of a delete.
jira_delete(p, change, status) ==
    IF ~p.allow_delete THEN Applied(p, <<>>, FALSE)
    ELSE IF ~startswith_http(change.prev[1].id) THEN Applied(p, <<>>, TRUE)
    ELSE Applied(p, <<Request("DELETE", change.prev[1], status)>>,
                 raise_for_status(status))

\* JiraProvider._apply_change, the branch of a create.
jira_create(p, change, status) ==
    IF change.next[1].name \notin IssueKeys
    THEN Applied([p EXCEPT !.unprocessed = Append(@, change)], <<>>, FALSE)
    ELSE IF status = 404 \/ status = 400
    THEN Applied([p EXCEPT !.unprocessed = Append(@, change)],
                 <<Request("POST", change.next[1], status)>>, FALSE)
    ELSE Applied(p, <<Request("POST", change.next[1], status)>>,
                 raise_for_status(status))

\* JiraProvider._apply_change, the branch of an update that keeps the name.
jira_update(p, change, status) ==
    IF \/ ~startswith_http(change.prev[1].id)
       \/ ~startswith_http(change.next[1].id)
       \/ change.prev[1].id # change.next[1].id
    THEN Applied(p, <<>>, TRUE)
    ELSE Applied(p, <<Request("PUT", change.next[1], status)>>,
                 raise_for_status(status))

\* JiraProvider._apply_change: an update that changes the name is split into a
\* delete of prev and a create of next.
jira_apply_change(p, change, resp) ==
    IF is_update(change) /\ change.prev[1].name # change.next[1].name
    THEN LET d == jira_delete(p, DataPointAction(change.prev, None), resp[1])
             c == jira_create(d.p, DataPointAction(None, change.next),
                              resp[Len(d.sent) + 1])
         IN  IF d.raised THEN d ELSE Applied(c.p, d.sent \o c.sent, c.raised)
    ELSE IF is_delete(change) THEN jira_delete(p, change, resp[1])
    ELSE IF is_create(change) THEN jira_create(p, change, resp[1])
    ELSE IF is_update(change) THEN jira_update(p, change, resp[1])
    ELSE Applied(p, <<>>, FALSE)

\* MetaTaskingProvider._apply_change
metasking_apply_change(p, change, resp) ==
    IF is_delete(change)
    THEN IF ~p.allow_delete THEN Applied(p, <<>>, FALSE)
         ELSE Applied(p, <<Request("DELETE", change.prev[1], resp[1])>>,
                      raise_for_status(resp[1]))
    ELSE IF is_create(change)
    THEN Applied(p, <<Request("POST", change.next[1], resp[1])>>,
                 raise_for_status(resp[1]))
    ELSE IF is_update(change)
    THEN LET put_record == Request("PUT", change.next[1], resp[1])
             get_log == Request("GET", change.next[1], resp[2])
             put_log == Request("PUT", change.next[1], resp[3])
         IN  IF raise_for_status(resp[1]) THEN Applied(p, <<put_record>>, TRUE)
             ELSE IF raise_for_status(resp[2])
             THEN Applied(p, <<put_record, get_log>>, TRUE)
             ELSE Applied(p, <<put_record, get_log, put_log>>, raise_for_status(resp[3]))
    ELSE Applied(p, <<>>, FALSE)

\* toggl_apply_change without the test of allow_delete.
toggl_apply_change_always_delete(p, change, resp) ==
    IF is_delete(change)
    THEN Applied(p, <<Request("DELETE", change.prev[1], resp[1])>>,
                 raise_for_status(resp[1]))
    ELSE IF is_update(change)
    THEN Applied(p, <<Request("PUT", change.next[1], resp[1])>>,
                 raise_for_status(resp[1]))
    ELSE Applied(p, <<Request("POST", change.next[1], resp[1])>>,
                 raise_for_status(resp[1]))

\* The body of the loop of TogglProvider.apply_changes.
toggl_apply_change(p, change, resp) ==
    IF is_delete(change)
    THEN IF ~p.allow_delete THEN Applied(p, <<>>, FALSE)
         ELSE Applied(p, <<Request("DELETE", change.prev[1], resp[1])>>,
                      raise_for_status(resp[1]))
    ELSE IF is_update(change)
    THEN Applied(p, <<Request("PUT", change.next[1], resp[1])>>,
                 raise_for_status(resp[1]))
    ELSE IF is_create(change)
    THEN Applied(p, <<Request("POST", change.next[1], resp[1])>>,
                 raise_for_status(resp[1]))
    ELSE Applied(p, <<>>, FALSE)

\* One iteration of the loop of apply_changes.  The Jira and meTasking loops catch
\* the exception and record the change as failed; the Toggl loop has no handler.
apply_one(p, change, resp) ==
    CASE p.kind = "jira" ->
            LET r == jira_apply_change(p, change, resp)
            IN  IF r.raised
                THEN Applied([r.p EXCEPT !.failed = Append(@, change)], r.sent, FALSE)
                ELSE r
      [] p.kind = "metasking" ->
            LET r == metasking_apply_change(p, change, resp)
            IN  IF r.raised
                THEN Applied([r.p EXCEPT !.failed = Append(@, change)], r.sent, FALSE)
                ELSE r
      [] p.kind = "toggl" -> toggl_apply_change(p, change, resp)

\* report without the Deleted list filled.
report_without_deleted(p) ==
    [Added |-> SelectSeq(p.all_changes, is_create),
     Updated |-> SelectSeq(p.all_changes, is_update),
     Deleted |-> <<>>,
     Invalid |-> <<>>,
     Failed |-> IF p.kind \in {"jira", "metasking"} THEN Some(p.failed) ELSE None,
     Unprocessed |-> IF p.kind = "jira" THEN Some(p.unprocessed) ELSE None]

\* BaseProvider.report and its overrides in JiraProvider and MetaTaskingProvider.
report(p) ==
    [Added |-> SelectSeq(p.all_changes, is_create),
     Updated |-> SelectSeq(p.all_changes, is_update),
     Deleted |-> SelectSeq(p.all_changes, is_delete),
     Invalid |-> SelectSeq(p.all_changes, LAMBDA x : x.prev = None /\ x.next = None),
     Failed |-> IF p.kind \in {"jira", "metasking"} THEN Some(p.failed) ELSE None,
     Unprocessed |-> IF p.kind = "jira" THEN Some(p.unprocessed) ELSE None]

\* -------------------------------------------------------------- main: exit

\* The with-block being left: the destination's after sync returned or raised,
\* then the source's.
Leaving(side) ==
    \/ side = _DESTINATION /\ pc \in {"synced", "sync_raised"}
    \/ side = _SOURCE /\ pc = "exit_source"

AfterExit(side) == IF side = _DESTINATION THEN "exit_source" ELSE "finally"

\* Provider.__exit__ -> apply() with dry_run set or nothing queued: no request is
\* sent and the queue is emptied.
ApplyNothing ==
    \E side \in Sides :
        /\ Leaving(side)
        /\ provider[side].dry_run \/ provider[side].remaining_changes = <<>>
        /\ provider' = [provider EXCEPT ![side].remaining_changes = <<>>]
        /\ pc' = AfterExit(side)
        /\ UNCHANGED <<inputVars, syncVars, mainVars, error, run>>

\* Provider.__exit__ -> apply() -> apply_changes(remaining_changes): one iteration
\* of its loop; the last one, or an exception leaving the loop, ends apply().
ApplyChange ==
    \E side \in Sides :
        /\ Leaving(side)
        /\ ~provider[side].dry_run
        /\ apply_pos <= Len(provider[side].remaining_changes)
        /\ \E resp \in Responses :
            LET p == provider[side]
                r == apply_one(p, p.remaining_changes[apply_pos], resp)
                last == apply_pos = Len(p.remaining_changes)
            IN  /\ requests' = [requests EXCEPT ![side] = @ \o r.sent]
                /\ IF r.raised
                   THEN /\ provider' = [provider EXCEPT ![side] = r.p]
                        /\ apply_error' = "HTTPError"
                        /\ apply_pos' = 1
                        /\ pc' = AfterExit(side)
                   ELSE /\ provider' =
                            [provider EXCEPT
                                ![side] = IF last THEN [r.p EXCEPT !.remaining_changes = <<>>]
                                          ELSE r.p]
                        /\ apply_error' = apply_error
                        /\ apply_pos' = IF last THEN 1 ELSE apply_pos + 1
                        /\ pc' = IF last THEN AfterExit(side) ELSE pc
        /\ UNCHANGED <<inputVars, syncVars, tgt, report_out, error, run>>

\* finally: if tgt is not None: console.print(tgt.report())
Report ==
    /\ pc = "finally"
    /\ report_out' = IF tgt THEN Some(report(provider[_DESTINATION])) ELSE None
    /\ pc' = "done"
    /\ UNCHANGED <<inputVars, provider, syncVars, apply_pos, tgt, requests, apply_error, error, run>>

Next ==
    \/ OpenSource
    \/ OpenDestination
    \/ Sync
    \/ Resync

Spec == Init /\ [][Next]_vars

\* main(): one call of sync between entering and leaving the two with-blocks.
MainKinds == {<<"toggl", "jira">>, <<"jira", "metasking">>, <<"metasking", "toggl">>}
MainFlags == [dry_run : BOOLEAN, delete : BOOLEAN]

MainInit ==
    InitWith(Accuracy,
             StorePairs(Contents(Labels, Intervals), MaxMainRecords),
             MainKinds, MainFlags)

MainNext ==
    \/ OpenSource
    \/ OpenDestination
    \/ Sync
    \/ ApplyNothing
    \/ ApplyChange
    \/ Report

MainSpec == MainInit /\ [][MainNext]_vars



\* --------------------------------------------- a provider driven through its API

\* Records handed to index_data_point and carried by changes: two ids, one of
\* them a Jira worklog URL.
Points ==
    {DataPoint("http-1", "A-1", None, DT(0, 0, 0), DT(1, 0, 0)),
     DataPoint("new-0", "b", None, DT(0, 0, 0), DT(1, 0, 0))}

\* What an update turns a record into: another name, another description,
\* another id.
Renamed(dp) == [dp EXCEPT !.name = IF @ = "b" THEN "A-1" ELSE "b"]
Described(dp) == [dp EXCEPT !.description = Some("x")]
Reidentified(dp) == [dp EXCEPT !.id = IF @ = "new-0" THEN "http-1" ELSE "new-0"]

\* DataPointAction objects that pass validate_action: creates, deletes, updates.
Changes ==
    {DataPointAction(None, Some(dp)) : dp \in Points}
        \cup {DataPointAction(Some(dp), None) : dp \in Points}
        \cup {DataPointAction(Some(dp), Some(Renamed(dp))) : dp \in Points}
        \cup {DataPointAction(Some(dp), Some(Described(dp))) : dp \in Points}
        \cup {DataPointAction(Some(dp), Some(Reidentified(dp))) : dp \in Points}

\* Non-empty lists of at most n changes.
ChangeLists(n) == UNION {[1..k -> Changes] : k \in 1..n}

\* Answers of the store to the requests of one change: all accepted, or one
\* of them rejected.
HardResponses ==
    {r \in [1..3 -> {200, 500}] : Cardinality({i \in 1..3 : r[i] = 500}) <= 1}

\* The loop of apply_changes from position i: the provider after it, the requests
\* sent and whether an exception left the loop.
RECURSIVE apply_changes_from(_, _, _, _, _)
apply_changes_from(p, changes, i, resps, sent) ==
    IF i > Len(changes) THEN Applied(p, sent, FALSE)
    ELSE LET r == apply_one(p, changes[i], resps[i])
         IN  IF r.raised THEN Applied(r.p, sent \o r.sent, TRUE)
             ELSE apply_changes_from(r.p, changes, i + 1, resps, sent \o r.sent)

apply_changes(p, changes, resps) == apply_changes_from(p, changes, 1, resps, <<>>)

\* BaseProvider.apply: the queue is emptied after apply_changes returned, not
\* when it raised.
apply(p, resps) ==
    IF p.dry_run THEN Applied([p EXCEPT !.remaining_changes = <<>>], <<>>, FALSE)
    ELSE LET r == apply_changes(p, p.remaining_changes, resps)
         IN  IF r.raised THEN r
             ELSE Applied([r.p EXCEPT !.remaining_changes = <<>>], r.sent, FALSE)

ProviderKinds == {"toggl", "jira", "metasking"}

\* A freshly constructed provider of any kind, before any call.
ProviderInit ==
    /\ accuracy = "second"
    /\ store = [t \in Sides |-> <<>>]
    /\ \E k \in ProviderKinds, f \in MainFlags :
        provider = [t \in Sides |-> BaseProvider(k, None, None, f.dry_run, f.delete)]
    /\ requests = [t \in Sides |-> <<>>]
    /\ id_map = EmptyMap /\ time_start_map = EmptyMap /\ time_end_map = EmptyMap
    /\ ids_list = [t \in Sides |-> <<>>]
    /\ next_generated_id = 0
    /\ missing_in_destination = {}
    /\ modified_in_destination_ids = {}
    /\ modified_in_destination = <<>>
    /\ additional_in_destination = {}
    /\ modifications = <<>>
    /\ pc = "provider"
    /\ error = ""
    /\ apply_error = ""
    /\ run = 1
    /\ cursor = 1
    /\ pending = {}
    /\ apply_pos = 1
    /\ tgt = FALSE
    /\ report_out = None

\* provider.index_data_point(data_point)
IndexDataPoint ==
    /\ pc = "provider"
    /\ Len(provider[_DESTINATION].data_sequence) < MaxHeld
    /\ \E data_point \in Points :
        LET r == BaseProvider_index_data_point(provider[_DESTINATION], data_point)
        IN  /\ provider' = [provider EXCEPT ![_DESTINATION] = r.p]
            /\ error' = r.raised
    /\ UNCHANGED <<inputVars, syncVars, mainVars, pc, run>>

\* provider.add_changes(data)
AddChanges ==
    /\ pc = "provider"
    /\ \E data \in ChangeLists(MaxQueued) :
        /\ Len(provider[_DESTINATION].all_changes) + Len(data) <= MaxQueued
        /\ LET r == add_changes(provider[_DESTINATION], data)
           IN  /\ provider' = [provider EXCEPT ![_DESTINATION] = r.p]
               /\ error' = r.raised
    /\ UNCHANGED <<inputVars, syncVars, mainVars, pc, run>>

\* provider.apply()
Apply ==
    /\ pc = "provider"
    /\ Len(requests[_DESTINATION]) < MaxSent
    /\ \E resps \in [1..Len(provider[_DESTINATION].remaining_changes) -> HardResponses] :
        LET r == apply(provider[_DESTINATION], resps)
        IN  /\ provider' = [provider EXCEPT ![_DESTINATION] = r.p]
            /\ requests' = [requests EXCEPT ![_DESTINATION] = @ \o r.sent]
            /\ apply_error' = IF r.raised THEN "HTTPError" ELSE ""
    /\ UNCHANGED <<inputVars, syncVars, apply_pos, tgt, report_out, pc, error, run>>

ProviderNext ==
    \/ IndexDataPoint
    \/ AddChanges
    \/ Apply

ProviderSpec == ProviderInit /\ [][ProviderNext]_vars

\* ------------------------------------- sync on one record per side, any times

\* Datetimes that differ in the minute, in the second and in the microsecond.
Ticks == {0, 1}
DateTimes == {DT(m, sec, u) : m \in Ticks, sec \in Ticks, u \in Ticks}

\* One record per side, of one name, over every pair of datetimes the
\* validator of DataPoint accepts.
RoundStores ==
    LET cs == Contents({[name |-> "A-1", description |-> None]}, DateTimes \X DateTimes)
    IN  {<<<<c1>>, <<c2>>>> : c1 \in cs, c2 \in cs}

RoundInit ==
    InitWith(Accuracy, RoundStores, {<<"toggl", "metasking">>},
             {[dry_run |-> FALSE, delete |-> TRUE]})

\* main() up to the return of sync().
SyncNext ==
    \/ OpenSource
    \/ OpenDestination
    \/ Sync

RoundSpec == RoundInit /\ [][SyncNext]_vars

\* ------------------------------------------------------------ the claims

\* The records the two stores held when main() started.
SourceRecords == Range(store[_SOURCE])
DestinationRecords == Range(store[_DESTINATION])

\* The fingerprint of a record at the configured accuracy.
Fingerprint(dp) ==
    <<round_datetime(accuracy, dp.start), round_datetime(accuracy, dp.end)>>

SameLabel(a, b) == a.name = b.name /\ a.description = b.description

SameContent(a, b) == SameLabel(a, b) /\ a.start = b.start /\ a.end = b.end

\* Positions of the change list by kind.
Creates == {i \in DOMAIN modifications : is_create(modifications[i])}
Updates == {i \in DOMAIN modifications : is_update(modifications[i])}
Deletes == {i \in DOMAIN modifications : is_delete(modifications[i])}

\* A source record without counterpart, a destination record without counterpart.
Missing(s) == ~\E d \in DestinationRecords : Fingerprint(d) = Fingerprint(s)
Extra(d) == ~\E s \in SourceRecords : Fingerprint(s) = Fingerprint(d)

FirstSyncReturned == pc = "synced" /\ run = 1

\* C1: after sync returns, the destination's collection matches the source's:
\* every source record has a destination record with its fingerprint, name and
\* description, and every destination record has such a source record.
C1_DestinationMatchesSource ==
    pc = "synced" =>
        LET src == Range(dump(provider[_SOURCE]))
            dst == Range(dump(provider[_DESTINATION]))
        IN  /\ \A s \in src : \E d \in dst : Fingerprint(d) = Fingerprint(s) /\ SameLabel(d, s)
            /\ \A d \in dst : \E s \in src : Fingerprint(d) = Fingerprint(s) /\ SameLabel(d, s)

\* C2: a second sync on the providers as the first one left them emits no change.
C2_SecondRunEmitsNothing ==
    (pc = "synced" /\ run = 2) => modifications = <<>>

\* C3: exactly one create, carrying the source record's name, description, start
\* and end, for each source record without destination counterpart, and no create
\* for any other source record.
C3_OneCreatePerMissingRecord ==
    FirstSyncReturned =>
        /\ \A s \in SourceRecords :
              Cardinality({i \in Creates : SameContent(modifications[i].next[1], s)})
                  = IF Missing(s) THEN 1 ELSE 0
        /\ \A i \in Creates :
              \E s \in SourceRecords : SameContent(modifications[i].next[1], s)

C3_Witness ==
    /\ FirstSyncReturned
    /\ \E s \in SourceRecords : Missing(s)
    /\ \E s \in SourceRecords : ~Missing(s)
    /\ Creates # {}

\* C4: a destination record that matches a source record and differs from it in
\* name or description gets exactly one update, from itself to itself with the
\* source's name and description; a matched pair with equal name and description
\* gets none.
C4_OneUpdatePerDifferingMatch ==
    FirstSyncReturned =>
        \A d \in DestinationRecords : \A s \in SourceRecords :
            Fingerprint(d) = Fingerprint(s) =>
                LET of_d == {i \in Updates : modifications[i].prev = Some(d)}
                IN  IF differs(d, s)
                    THEN /\ Cardinality(of_d) = 1
                         /\ \A i \in of_d : modifications[i].next = Some(modified(d, s))
                    ELSE of_d = {}

\* The changes of a list that are about the destination record d.
ChangesFor(changes, d) ==
    {i \in DOMAIN changes :
        \/ changes[i].prev = Some(d)
        \/ changes[i].next # None /\ changes[i].next[1].id = d.id}

\* C5 as stated: a destination record without source counterpart gets exactly one
\* delete in the change list when deletes are enabled and no change when they are
\* disabled.
C5_NoChangeWhenDeletesDisabled ==
    pc = "synced" =>
        \A d \in DestinationRecords :
            Extra(d) =>
                LET changes == provider[_DESTINATION].all_changes
                IN  IF provider[_DESTINATION].allow_delete
                    THEN /\ Cardinality(ChangesFor(changes, d)) = 1
                         /\ \A i \in ChangesFor(changes, d) : is_delete(changes[i])
                    ELSE ChangesFor(changes, d) = {}

\* C5 as amended: a destination record without source counterpart gets exactly
\* one change in the change list, a delete of that record, whether deletes are
\* enabled or not.
C5_OneDeletePerExtraRecord ==
    pc = "synced" =>
        \A d \in DestinationRecords :
            Extra(d) =>
                LET changes == provider[_DESTINATION].all_changes
                IN  /\ Cardinality(ChangesFor(changes, d)) = 1
                    /\ \A i \in ChangesFor(changes, d) :
                          changes[i] = DataPointAction(Some(d), None)
                    /\ changes = modifications

C5_Witness ==
    /\ pc = "synced"
    /\ ~provider[_DESTINATION].allow_delete
    /\ \E d \in DestinationRecords : Extra(d)
    /\ \E i \in DOMAIN provider[_DESTINATION].all_changes :
          is_delete(provider[_DESTINATION].all_changes[i])

\* C6: once both sides are indexed without error, no side holds two records with
\* the same rounded start and the same rounded end.
C6_IndexedSidesHoldOneRecordPerFingerprint ==
    pc = "sync_missing" =>
        \A side \in Sides :
            \A i, j \in DOMAIN ids_list[side] :
                i # j =>
                    Fingerprint(id_map[<<side, ids_list[side][i]>>])
                        # Fingerprint(id_map[<<side, ids_list[side][j]>>])

\* C7: the updates, the deletes and the contents of the created records are those
\* of one fixed visiting order, whatever order the run visited the sets in.
C7_DiffIsDeterministic ==
    FirstSyncReturned =>
        LET found(d) == candidates(accuracy, Index, _SOURCE, d)
            ref(d) == id_map[CHOOSE k \in found(d) : TRUE]
            changed == {d \in DestinationRecords : found(d) # {} /\ differs(d, ref(d))}
        IN  /\ {<<modifications[i].prev[1], modifications[i].next[1]>> : i \in Updates}
                = {<<d, modified(d, ref(d))>> : d \in changed}
            /\ {modifications[i].prev[1] : i \in Deletes}
                = {d \in DestinationRecords : found(d) = {}}
            /\ \A s \in SourceRecords :
                  Cardinality({i \in Creates : SameContent(modifications[i].next[1], s)})
                      = IF Missing(s) THEN 1 ELSE 0

\* C8: the id of a created record is the id of no source record, of no
\* destination record and of no record created before it, and indexing a created
\* record raises no duplicate-id error.
C8_GeneratedIdsAreFresh ==
    /\ \A i \in Creates :
          LET id == modifications[i].next[1].id
          IN  /\ id \notin {s.id : s \in SourceRecords}
              /\ run = 1 => id \notin {d.id : d \in DestinationRecords}
              /\ \A j \in Creates : j < i => modifications[j].next[1].id # id
    /\ error # "Duplicate data point id"

C8_Witness ==
    /\ FirstSyncReturned
    /\ Cardinality(Creates) >= 2
    /\ \E i \in Creates, s \in SourceRecords :
          modifications[i].next[1].id = new_id(2) /\ s.id = new_id(1)

\* The fatal errors of sync.
SyncErrors ==
    {"Duplicate data point id", "Duplicate data point",
     "Same id matched multiple times", "Unknown action"}

\* C9: when sync raised a fatal error, no request is ever sent to a backing
\* store, although leaving the with-blocks calls apply().
C9_NoRequestAfterFatalError ==
    error \in SyncErrors => \A side \in Sides : requests[side] = <<>>

C9_Witness ==
    /\ pc = "done"
    /\ error = "Duplicate data point"
    /\ tgt
    /\ ~provider[_DESTINATION].dry_run
    /\ report_out # None

\* A request that carries the next record of a create or update.
Sent(p, reqs, change) ==
    LET as_create == \/ is_create(change)
                     \/ p.kind = "jira" /\ change.prev[1].name # change.next[1].name
    IN  \E r \in Range(reqs) :
            /\ r.data = change.next[1]
            /\ r.method = IF as_create THEN "POST" ELSE "PUT"

C11_DryRunLeavesStoresUntouched ==
    \A side \in Sides :
        provider[side].dry_run =>
            /\ requests[side] = <<>>
            /\ (pc = "done" /\ tgt /\ error = "") =>
                  LET r == report_out[1]
                  IN  /\ Len(r.Added) + Len(r.Updated) + Len(r.Deleted) = Len(modifications)
                      /\ \A i \in Creates : modifications[i] \in Range(r.Added)
                      /\ \A i \in Updates : modifications[i] \in Range(r.Updated)
                      /\ \A i \in Deletes : modifications[i] \in Range(r.Deleted)
                      /\ \A s \in SourceRecords :
                            Missing(s) =>
                                \E c \in Range(r.Added) : SameContent(c.next[1], s)
                      /\ \A d \in DestinationRecords :
                            Extra(d) => DataPointAction(Some(d), None) \in Range(r.Deleted)

C11_Witness ==
    /\ pc = "done" /\ tgt /\ error = ""
    /\ provider[_DESTINATION].dry_run
    /\ Creates # {}
    /\ Deletes # {}
    /\ report_out # None
    /\ provider[_DESTINATION].remaining_changes = <<>>

\* C17: when every record of each side has a record on the other side with its
\* fingerprint, name and description (both sides empty included), sync emits
\* no change.
C17_EqualSidesEmitNothing ==
    FirstSyncReturned =>
        ((/\ \A s \in SourceRecords : \E d \in DestinationRecords :
                Fingerprint(d) = Fingerprint(s) /\ SameLabel(d, s)
          /\ \A d \in DestinationRecords : \E s \in SourceRecords :
                Fingerprint(d) = Fingerprint(s) /\ SameLabel(d, s))
         => modifications = <<>>)

\* C20: the ambiguous-match error is never raised and no destination id is
\* flagged as modified twice.
C20_NoDestinationIdFlaggedTwice ==
    /\ error # "Same id matched multiple times"
    /\ \A i, j \in DOMAIN modified_in_destination :
          i # j => modified_in_destination[i][1].id # modified_in_destination[j][1].id
    /\ Cardinality(modified_in_destination_ids) = Len(modified_in_destination)

C20_Witness ==
    /\ FirstSyncReturned
    /\ Updates # {}
    /\ \E d \in DestinationRecords :
          Cardinality({s \in SourceRecords :
                          Fingerprint(s) = Fingerprint(d) /\ differs(d, s)}) >= 2

\* Whether apply_changes got to the change: a request about its record was
\* sent, or it is a delete that allow_delete suppresses, or the provider
\* recorded it (or the create it was split into) as failed or unprocessed.
Attempted(p, reqs, change) ==
    \/ \E r \in Range(reqs) : Some(r.data) \in {change.prev, change.next}
    \/ is_delete(change) /\ ~p.allow_delete
    \/ change \in Range(p.failed) \cup Range(p.unprocessed)
    \/ change.next # None /\ DataPointAction(None, change.next) \in Range(p.unprocessed)

\* C12: once the destination's apply() has ended, every queued change has been
\* attempted, whatever the store answered to the changes before it.
C12_EveryQueuedChangeIsAttempted ==
    (/\ pc \in {"exit_source", "finally", "done"}
     /\ tgt /\ error = ""
     /\ ~provider[_DESTINATION].dry_run)
    => \A c \in Range(provider[_DESTINATION].all_changes) :
            Attempted(provider[_DESTINATION], requests[_DESTINATION], c)

\* C19: the run ends with the report and without an exception from apply(), and
\* every change whose request the destination store rejected is in the Failed
\* or Unprocessed list of the report.
C19_RejectedChangesAreReported ==
    (pc = "done" /\ tgt) =>
        /\ apply_error = ""
        /\ report_out # None
        /\ LET r == report_out[1]
               listed == (IF r.Failed # None THEN Range(r.Failed[1]) ELSE {})
                            \cup (IF r.Unprocessed # None THEN Range(r.Unprocessed[1]) ELSE {})
           IN  \A q \in Range(requests[_DESTINATION]) :
                    q.status >= 400 =>
                        \E c \in listed : Some(q.data) \in {c.prev, c.next}

\* The provider ProviderSpec drives.
TheProvider == provider[_DESTINATION]

\* C13: data_indexes gives every id of data_sequence its position, and
\* data_indexes and data_map have exactly the ids of data_sequence as keys.
C13_MapsFollowTheSequence ==
    LET p == TheProvider
    IN  /\ DOMAIN p.data_indexes = Range(p.data_sequence)
        /\ DOMAIN p.data_map = Range(p.data_sequence)
        /\ \A i \in DOMAIN p.data_sequence : p.data_indexes[p.data_sequence[i]] = i - 1

ExpectedDump(p, data) ==
    LET deleted == {data[i].prev[1].id : i \in {j \in DOMAIN data : is_delete(data[j])}}
        kept == SelectSeq(dump(p), LAMBDA dp : dp.id \notin deleted)
        updates(dp) == {j \in DOMAIN data : is_update(data[j]) /\ data[j].prev[1].id = dp.id}
        last(S) == CHOOSE j \in S : \A k \in S : k <= j
        creates == SelectSeq(data, is_create)
    IN  [i \in DOMAIN kept |->
            IF updates(kept[i]) = {} THEN kept[i]
            ELSE data[last(updates(kept[i]))].next[1]]
        \o [i \in DOMAIN creates |-> creates[i].next[1]]

\* The change lists add_changes may still be given in this state.
NextChangeLists ==
    {data \in ChangeLists(MaxQueued) :
        Len(TheProvider.all_changes) + Len(data) <= MaxQueued}

\* The ids a change names.
IdsOf(change) ==
    {x[1].id : x \in {y \in {change.prev, change.next} : y # None}}

\* A change list that names each id in at most one change and whose updates
\* keep the id of the record.
WellFormed(data) ==
    /\ \A i, j \in DOMAIN data : i # j => IdsOf(data[i]) \cap IdsOf(data[j]) = {}
    /\ \A i \in DOMAIN data : is_update(data[i]) => data[i].prev[1].id = data[i].next[1].id

\* C15 as stated: after add_changes(data) returns, for any change list, dump()
\* yields the expected sequence and the changes are queued for apply().
C15_DumpReflectsAnyChangeList ==
    \A data \in NextChangeLists :
        LET r == add_changes(TheProvider, data)
        IN  r.raised = "" =>
                /\ dump(r.p) = ExpectedDump(TheProvider, data)
                /\ r.p.remaining_changes = TheProvider.remaining_changes \o data

\* C15 as amended: the same for change lists that name each id in at most one
\* change and whose updates keep the id of the record.
C15_DumpReflectsWellFormedChangeList ==
    \A data \in NextChangeLists :
        LET r == add_changes(TheProvider, data)
        IN  (r.raised = "" /\ WellFormed(data)) =>
                /\ dump(r.p) = ExpectedDump(TheProvider, data)
                /\ r.p.remaining_changes = TheProvider.remaining_changes \o data

C15_Witness ==
    LET p == TheProvider
    IN  /\ pc = "provider" /\ error = ""
        /\ Len(p.all_changes) = 2
        /\ WellFormed(p.all_changes)
        /\ p.remaining_changes = p.all_changes
        /\ \E c \in Range(p.all_changes) : is_update(c) /\ c.next[1] \in Range(dump(p))
        /\ \E c \in Range(p.all_changes) : is_create(c) /\ c.next[1] \in Range(dump(p))

\* The mutations a provider performs for one change when the store accepts
\* them all: two for a meTasking update and for a Jira update that changes the
\* name, one otherwise.
MutationsOf(p, change) ==
    IF is_update(change) /\ p.kind = "metasking" THEN 2
    ELSE IF is_update(change) /\ p.kind = "jira"
            /\ change.prev[1].name # change.next[1].name THEN 2
    ELSE 1

RECURSIVE MutationsOfAll(_, _, _)
MutationsOfAll(p, changes, i) ==
    IF i > Len(changes) THEN 0
    ELSE MutationsOf(p, changes[i]) + MutationsOfAll(p, changes, i + 1)

\* The mutations the store accepted.
Performed(reqs) == {i \in DOMAIN reqs : reqs[i].method # "GET" /\ reqs[i].status = 200}

\* C18: apply() with an empty queue sends nothing, an apply() that returns
\* leaves the queue empty, and over all the apply() calls made the store has
\* performed no more mutations than one application of each queued change takes.
C18_EachQueuedChangeAppliedAtMostOnce ==
    LET p == TheProvider
    IN  /\ p.remaining_changes = <<>> => apply(p, <<>>) = Applied(p, <<>>, FALSE)
        /\ \A resps \in [1..Len(p.remaining_changes) -> HardResponses] :
              ~apply(p, resps).raised => apply(p, resps).p.remaining_changes = <<>>
        /\ Cardinality(Performed(requests[_DESTINATION]))
              <= MutationsOfAll(p, p.all_changes, 1)

\* Whether two records have the same rounded start and the same rounded end at
\* an accuracy.
MatchAt(acc, a, b) ==
    /\ round_datetime(acc, a.start) = round_datetime(acc, b.start)
    /\ round_datetime(acc, a.end) = round_datetime(acc, b.end)

\* C16: a source and a destination record that match at microsecond accuracy
\* match at second and at minute accuracy, and two that match at second accuracy
\* match at minute accuracy; with one record per side, sync matches them (emits
\* neither a create nor a delete) exactly when they match at its accuracy.
C16_CoarseningKeepsMatches ==
    \A s \in SourceRecords : \A d \in DestinationRecords :
        /\ MatchAt("microsecond", s, d) => MatchAt("second", s, d) /\ MatchAt("minute", s, d)
        /\ MatchAt("second", s, d) => MatchAt("minute", s, d)
        /\ (FirstSyncReturned /\ Len(store[_SOURCE]) = 1 /\ Len(store[_DESTINATION]) = 1)
              => (MatchAt(accuracy, s, d) <=> (Creates = {} /\ Deletes = {}))

C16_Witness ==
    /\ FirstSyncReturned
    /\ accuracy = "minute"
    /\ modifications = <<>>
    /\ \E s \in SourceRecords : \E d \in DestinationRecords :
          /\ ~MatchAt("microsecond", s, d)
          /\ MatchAt("second", s, d)
          /\ s.start # d.start /\ s.end # d.end

\* The id of the record a change is about: the destination record of an update
\* or a delete, the new record of a create.
SubjectId(change) == IF change.prev # None THEN change.prev[1].id ELSE change.next[1].id

\* C21: the modified and the extra destination ids are disjoint, so no id is
\* the target of an update and of a delete; no id is the subject of two changes;
\* a created id is neither modified nor extra; and a source id in
\* missing_in_destination has no destination record with its fingerprint.
C21_ClassificationIsDisjoint ==
    /\ modified_in_destination_ids \cap additional_in_destination = {}
    /\ \A i \in Updates : \A j \in Deletes :
          modifications[i].prev[1].id # modifications[j].prev[1].id
    /\ \A i, j \in DOMAIN modifications :
          i # j => SubjectId(modifications[i]) # SubjectId(modifications[j])
    /\ \A i \in Creates :
          modifications[i].next[1].id
              \notin modified_in_destination_ids \cup additional_in_destination
    /\ run = 1 =>
          \A id \in missing_in_destination : Missing(id_map[<<_SOURCE, id>>])

C21_Witness ==
    /\ FirstSyncReturned
    /\ modified_in_destination_ids # {}
    /\ additional_in_destination # {}
    /\ Updates # {}
    /\ Deletes # {}

\* C22: the source provider holds, from open() on, exactly what open() gave it
\* (the records of its store, in order, and empty change queues), and no request
\* is ever sent to the source store.
C22_SourceSideUnchanged ==
    LET p == provider[_SOURCE]
        opened == open(BaseProvider(p.kind, p.since, p.until, p.dry_run, p.allow_delete),
                       store[_SOURCE]).p
    IN  /\ requests[_SOURCE] = <<>>
        /\ p.remaining_changes = <<>>
        /\ p.all_changes = <<>>
        /\ pc # "enter_source" =>
              /\ p = opened
              /\ dump(p) = store[_SOURCE]
              /\ DOMAIN p.data_map = {dp.id : dp \in SourceRecords}
              /\ \A i \in DOMAIN p.data_sequence : p.data_indexes[p.data_sequence[i]] = i - 1

C22_Witness ==
    /\ pc = "done" /\ tgt
    /\ error = "" /\ apply_error = ""
    /\ store[_SOURCE] # <<>>
    /\ provider[_DESTINATION].all_changes # <<>>
    /\ requests[_DESTINATION] # <<>>
    /\ dump(provider[_DESTINATION]) # store[_DESTINATION]

\* The worklogs the destination store holds for the interval of a record once
\* the requests sent so far are taken into account: the records it started
\* with that no accepted DELETE names, and one per accepted POST.
WorklogsFor(dp) ==
    LET reqs == requests[_DESTINATION]
        same(x) == x.start = dp.start /\ x.end = dp.end
        deleted(d) == \E r \in Range(reqs) :
                          r.method = "DELETE" /\ r.status = 200 /\ r.data.id = d.id
    IN  Cardinality({d \in DestinationRecords : same(d) /\ ~deleted(d)})
            + Cardinality({i \in DOMAIN reqs :
                              /\ reqs[i].method = "POST"
                              /\ reqs[i].status = 200
                              /\ same(reqs[i].data)})

\* C23: once a Jira destination has applied its queue, the store holds exactly
\* one worklog for the interval of every update it was given.
C23_JiraUpdateKeepsOneWorklog ==
    (/\ pc = "done" /\ tgt /\ error = ""
     /\ provider[_DESTINATION].kind = "jira"
     /\ ~provider[_DESTINATION].dry_run)
    => \A c \in Range(provider[_DESTINATION].all_changes) :
            is_update(c) => WorklogsFor(c.prev[1]) = 1

====
